---- MODULE Spec2Model ----
(***************************************************************************)
(* Agent runtime of RxDsec CLI: protocol parser, permission engine, tool   *)
(* registry and quest orchestrator (src/rxdsec/agent/core.py,              *)
(* src/rxdsec/tools/base.py, src/rxdsec/permissions/engine.py).            *)
(*                                                                         *)
(* Strings are sequences of text units.  A unit is one character or a run  *)
(* of literal characters that no pattern in use splits ("a", ".py",        *)
(* "finished").  The glob characters "*", "?" and ":" are always units of  *)
(* their own.  Offsets and lengths are counted in units.                   *)
(***************************************************************************)
EXTENDS Integers, Sequences, FiniteSets, TLC

VARIABLES
    pc,                 \* position of run_quest / of the driver of the pure functions
    backend,            \* behaviour of the generation backend: "any" or "meta_only"
    tools,              \* ToolRegistry.tools: the registered tool names
    global_file,        \* ~/.rxdsec/permissions.yaml   [rules, active_preset]
    local_file,         \* <workspace>/.rxdsec/permissions.yaml
    confirmation_cache, \* PermissionsEngine._confirmation_cache: set of <<key, decision>>
    max_iterations,     \* run_quest argument
    iteration,          \* run_quest local: raw cycle count
    effective_turns,    \* run_quest local: effective-turn counter
    result,             \* run_quest local: the quest result dictionary
    text,               \* the response handed to parse_tools
    tool_calls,         \* the list parse_tools returned
    exec_trace,         \* the tool executions of the current cycle, in the order made
                        \* (engine and session driven alone: the last operation made)
    cycle,              \* what the last loop cycle did (kind, counter before it)
    session,            \* SessionManager: quest_id and quest_task
    messages            \* SessionManager.messages (run_quest: its tool-role entries)

vars == <<pc, backend, tools, global_file, local_file, confirmation_cache,
          max_iterations, iteration, effective_turns, result, text,
          tool_calls, exec_trace, cycle, session, messages>>

None == "None"
\* None where the value is otherwise a string of units
NoText == <<"<None>">>

\* ---------------------------------------------------------------- bounds
MaxIter == 2        \* largest max_iterations handed to run_quest
MaxRaw == 3         \* raw cycle counts above MaxRaw are folded into MaxRaw
MaxToks == 3        \* longest token sequence the parser is driven with

\* ------------------------------------------------------- sequence helpers
Idx(n) == [i \in 1..n |-> i]

RECURSIVE Concat(_)
Concat(ss) == IF ss = <<>> THEN <<>> ELSE Head(ss) \o Concat(Tail(ss))

Contains(seq, x) == \E i \in 1..Len(seq) : seq[i] = x

\* s[a:b] of Python, 0-based half-open, on a 1-based sequence
Slice(s, a, b) == SubSeq(s, a + 1, b)

\* needle in haystack (Python's `in` on strings)
IsSubstring(needle, hay) ==
    \E i \in 0..(Len(hay) - Len(needle)) : Slice(hay, i, i + Len(needle)) = needle

\* ------------------------------------------------------------- fnmatch
\* fnmatch.fnmatch(name, pat): "*" matches any run of units ("/" included),
\* "?" exactly one unit, every other unit itself.
RECURSIVE fnmatch(_, _)
fnmatch(name, pat) ==
    \E n \in {name}, p \in {pat} :
        IF p = <<>> THEN n = <<>>
        ELSE IF Head(p) = "*"
             THEN \E k \in 0..Len(n) : fnmatch(SubSeq(n, k + 1, Len(n)), Tail(p))
        ELSE IF n = <<>> THEN FALSE
        ELSE IF Head(p) = "?" THEN fnmatch(Tail(n), Tail(p))
        ELSE Head(n) = Head(p) /\ fnmatch(Tail(n), Tail(p))

\* ---------------------------------------------------- permission rules
Rule(a, c, p, prio) == [action |-> a, category |-> c, pattern |-> p, priority |-> prio]

_get_tool_category(tool) ==
    IF tool \in {"read", "read_lines", "grep", "find"} THEN "read"
    ELSE IF tool \in {"write", "write_lines", "patch"} THEN "write"
    ELSE IF tool \in {"localexec", "shell", "run_tests"} THEN "exec"
    ELSE IF tool \in {"webfetch", "download", "web_search"} THEN "web"
    ELSE "all"

\* index of the first ":" of a pattern, 0 when it has none
ColonAt(p) ==
    IF Contains(p, ":") THEN CHOOSE i \in 1..Len(p) : p[i] = ":" /\ \A j \in 1..(i - 1) : p[j] # ":"
    ELSE 0

\* PermissionRule.matches; tool is a name, resource a unit sequence
matches(rule, tool, resource) ==
    IF rule.category # "all" /\ _get_tool_category(tool) # rule.category THEN FALSE
    ELSE IF rule.pattern = <<"*">> THEN TRUE
    ELSE IF ColonAt(rule.pattern) # 0
         THEN LET c == ColonAt(rule.pattern)
                  pattern_tool == SubSeq(rule.pattern, 1, c - 1)
                  pattern_resource == SubSeq(rule.pattern, c + 1, Len(rule.pattern))
              IN  /\ (pattern_tool = <<"*">> \/ fnmatch(<<tool>>, pattern_tool))
                  /\ (pattern_resource = <<"*">> \/ fnmatch(resource, pattern_resource))
    ELSE fnmatch(resource, rule.pattern)

DEFAULT_CONFIG ==
    [active_preset |-> None,
     rules |-> <<
        Rule("allow", "read", <<"*", "*", "/", "*">>, 0),
        Rule("deny", "read", <<"*", "*", "/", ".env", "*">>, 10),
        Rule("deny", "read", <<"*", "*", "/", "secrets", "/", "*", "*">>, 10),
        Rule("allow", "write", <<"*", "*", "/", "*", ".py">>, 0),
        Rule("allow", "write", <<"*", "*", "/", "*", ".js">>, 0),
        Rule("allow", "write", <<"*", "*", "/", "*", ".ts">>, 0),
        Rule("allow", "write", <<"*", "*", "/", "*", ".md">>, 0),
        Rule("deny", "write", <<"*", "*", "/", "node_modules", "/", "*", "*">>, 10),
        Rule("deny", "write", <<"*", "*", "/", ".git", "/", "*", "*">>, 10),
        Rule("allow", "exec", <<"python", "*">>, 0),
        Rule("allow", "exec", <<"pip", "*">>, 0),
        Rule("allow", "exec", <<"npm", "*">>, 0),
        Rule("allow", "exec", <<"git", "*">>, 0),
        Rule("deny", "exec", <<"rm", "*">>, 10),
        Rule("deny", "exec", <<"sudo", "*">>, 10),
        Rule("allow", "web", <<"*", ".github.com">>, 0),
        Rule("allow", "web", <<"*", ".stackoverflow.com">>, 0),
        Rule("allow", "web", <<"*", ".python.org">>, 0) >>]

PRESETS ==
    [security |-> <<Rule("deny", "exec", <<"*">>, 100),
                    Rule("deny", "web", <<"*">>, 100),
                    Rule("confirm", "write", <<"*", "*", "/", "*">>, 50)>>,
     open |-> <<Rule("allow", "all", <<"*">>, 0)>>,
     readonly |-> <<Rule("allow", "read", <<"*", "*", "/", "*">>, 50),
                    Rule("deny", "write", <<"*", "*", "/", "*">>, 100),
                    Rule("deny", "exec", <<"*">>, 100)>>]

\* PermissionsEngine._load_config: the global file is read first, the local
\* file second; rules accumulate, a set active_preset replaces the earlier one.
_load_config ==
    [rules |-> global_file.rules \o local_file.rules,
     active_preset |-> IF local_file.active_preset # None THEN local_file.active_preset
                       ELSE global_file.active_preset,
     presets |-> PRESETS]

\* sorted(effective, key=priority, reverse=True): stable, highest first.
\* (A value that is used more than once is bound through a one-element set,
\* here and below, so that it is computed once.)
RECURSIVE SortByPriority(_, _)
SortByPriority(rs, prios) ==
    IF prios = {} THEN <<>>
    ELSE CHOOSE sorted \in
            {SelectSeq(rs, LAMBDA r : r.priority = top) \o SortByPriority(rs, prios \ {top}) :
                top \in {p \in prios : \A q \in prios : q <= p}} : TRUE

\* get_effective_rules with the preset's rules ahead of the stored rules
get_effective_rules_PresetFirst(config) ==
    CHOOSE sorted \in
        {SortByPriority(effective, {effective[i].priority : i \in 1..Len(effective)}) :
            effective \in {IF config.active_preset # None
                              /\ config.active_preset \in DOMAIN config.presets
                           THEN config.presets[config.active_preset] \o config.rules
                           ELSE config.rules}} : TRUE

\* PermissionsConfig.get_effective_rules
get_effective_rules(config) ==
    CHOOSE sorted \in
        {SortByPriority(effective, {effective[i].priority : i \in 1..Len(effective)}) :
            effective \in {IF config.active_preset # None
                              /\ config.active_preset \in DOMAIN config.presets
                           THEN config.rules \o config.presets[config.active_preset]
                           ELSE config.rules}} : TRUE

cache_key(action, target) == <<action, ":">> \o target

CacheHas(cache, key) == \E e \in cache : e[1] = key
CacheGet(cache, key) == (CHOOSE e \in cache : e[1] = key)[2]

\* the scan of check with `return False` after the loop
CheckRules_DefaultDeny(rules, action, target, cache) ==
    \E hits \in {{i \in 1..Len(rules) : matches(rules[i], action, target)}} :
        IF hits = {} THEN FALSE
        ELSE \E first \in {i \in hits : \A j \in hits : i <= j} :
                IF rules[first].action = "allow" THEN TRUE
                ELSE IF rules[first].action = "deny" THEN FALSE
                ELSE IF CacheHas(cache, cache_key(action, target))
                     THEN CacheGet(cache, cache_key(action, target))
                     ELSE FALSE

\* the scan of check over the sorted rules under the cache `cache`: the
\* first matching rule decides, no match allows
CheckRules(rules, action, target, cache) ==
    \E hits \in {{i \in 1..Len(rules) : matches(rules[i], action, target)}} :
        IF hits = {} THEN TRUE
        ELSE \E first \in {i \in hits : \A j \in hits : i <= j} :
                IF rules[first].action = "allow" THEN TRUE
                ELSE IF rules[first].action = "deny" THEN FALSE
                ELSE IF CacheHas(cache, cache_key(action, target))
                     THEN CacheGet(cache, cache_key(action, target))
                     ELSE FALSE

\* PermissionsEngine.check(action, target)
check(action, target) ==
    \E rules \in {get_effective_rules(_load_config)}, resource \in {target} :
        CheckRules(rules, action, resource, confirmation_cache)

\* ------------------------------------------------------ response text
\* A response is a sequence of tokens:
\*   "Tool:"  the prefix `Tool: `              "$"   the prefix `$ `
\*   "nl"     a newline                        "word" free text (units)
\*   "call"   `name(args)`, args a sequence of key=value items
Tok(k, name, args, units) == [k |-> k, name |-> name, args |-> args, units |-> units]
PrefixTool == Tok("Tool:", None, <<>>, <<>>)
PrefixShell == Tok("$", None, <<>>, <<>>)
Newline == Tok("nl", None, <<>>, <<>>)
Word(units) == Tok("word", None, <<>>, units)
Call(name, args) == Tok("call", name, args, <<>>)
\* one key=value item; q is the quoting: "dq" "..." , "sq" '...' , "bare"
Arg(key, q, val) == [key |-> key, q |-> q, val |-> val]

\* length of a token in units: prefix and its blank, name ( items )
TokLen(t) ==
    CASE t.k = "Tool:" -> 2
      [] t.k = "$" -> 2
      [] t.k = "nl" -> 1
      [] t.k = "word" -> Len(t.units) + 1
      [] OTHER -> 3 + Len(t.args)

\* offset of token i in the text (match.start() of a match beginning there)
RECURSIVE Offset(_, _)
Offset(txt, i) == IF i <= 1 THEN 0 ELSE Offset(txt, i - 1) + TokLen(txt[i - 1])

\* text[:start].count('\n') + 1 for a match starting at token i
LineNumber(txt, i) == Cardinality({j \in 1..(i - 1) : txt[j].k = "nl"}) + 1

\* `\s*` after a prefix: the call token reached over whitespace only, or 0
RECURSIVE CallAfter(_, _)
CallAfter(txt, i) ==
    IF i + 1 > Len(txt) THEN 0
    ELSE IF txt[i + 1].k = "call" THEN i + 1
    ELSE IF txt[i + 1].k = "nl" THEN CallAfter(txt, i + 1)
    ELSE 0

BARE_NAMES == {"read", "write", "grep", "find", "shell", "localexec", "webfetch", "patch"}

\* RxDsecAgent.TOOL_PATTERNS, in list order
TOOL_PATTERNS == <<"Tool:", "$", "bare">>

\* pattern.finditer(text): the matches of one pattern, left to right; a match
\* is [start, first token, call token]
FindIter(pattern, txt) ==
    LET hit(i) == IF pattern = "bare"
                  THEN txt[i].k = "call" /\ txt[i].name \in BARE_NAMES
                  ELSE txt[i].k = pattern /\ CallAfter(txt, i) # 0
        at == SelectSeq(Idx(Len(txt)), hit)
    IN  [n \in 1..Len(at) |->
            [start |-> Offset(txt, at[n]), first |-> at[n],
             call |-> IF pattern = "bare" THEN at[n] ELSE CallAfter(txt, at[n])]]

\* value.replace('\\n','\n').replace('\\t','\t').replace('\\"','"').replace("\\'","'")
UnescapeUnit(u) ==
    CASE u = "\\n" -> "\n"
      [] u = "\\t" -> "\t"
      [] u = "\\\"" -> "\""
      [] u = "\\'" -> "'"
      [] OTHER -> u
Unescape(val) == [i \in 1..Len(val) |-> UnescapeUnit(val[i])]

\* a dict is a sequence of <<key, value>> with distinct keys, in insertion order
DictHas(d, k) == \E i \in 1..Len(d) : d[i][1] = k
DictGet(d, k, default) ==
    IF DictHas(d, k) THEN d[CHOOSE i \in 1..Len(d) : d[i][1] = k][2] ELSE default
DictPut(d, k, v) ==
    IF DictHas(d, k) THEN [i \in 1..Len(d) |-> IF d[i][1] = k THEN <<k, v>> ELSE d[i]]
    ELSE Append(d, <<k, v>>)

\* the ARG_PATTERN loop of parse_tools: args[key] = unescaped value
RECURSIVE ParseArgs(_, _)
ParseArgs(items, args) ==
    IF items = <<>> THEN args
    ELSE ParseArgs(Tail(items), DictPut(args, Head(items).key, Unescape(Head(items).val)))

ToolCall(name, args, start, line_number) ==
    [name |-> name, args |-> args, start |-> start, line_number |-> line_number]

\* the body of the two loops of parse_tools over the candidate matches
RECURSIVE ParseMatches(_, _, _, _)
ParseMatches(cands, seen_positions, txt, registered) ==
    IF cands = <<>> THEN <<>>
    ELSE LET match == Head(cands)
             tok == txt[match.call]
             rest == ParseMatches(Tail(cands), seen_positions \cup {match.start}, txt, registered)
         IN  IF match.start \in seen_positions THEN rest
             ELSE IF tok.name \notin registered THEN rest
             ELSE <<ToolCall(tok.name, ParseArgs(tok.args, <<>>), match.start,
                             LineNumber(txt, match.first))>> \o rest

\* RxDsecAgent.parse_tools
parse_tools(txt, registered) ==
    ParseMatches(Concat([p \in 1..Len(TOOL_PATTERNS) |-> FindIter(TOOL_PATTERNS[p], txt)]),
                 {}, txt, registered)

\* -------------------------------------------------------- tool registry
\* ToolResult(...) with __post_init__: success forces SUCCESS, a failure
\* never carries SUCCESS
ToolResult(success, output, error, status) ==
    [success |-> success, output |-> output, error |-> error,
     status |-> IF success THEN "SUCCESS"
                ELSE IF status = "SUCCESS" THEN "FAILURE" ELSE status]

ToolResult_ok(output) == ToolResult(TRUE, output, NoText, "SUCCESS")
ToolResult_fail(error, output, status) == ToolResult(FALSE, output, error, status)

\* a declared parameter; has_default is FALSE when ToolParameter.default is None
Param(name, type_hint, required, has_default) ==
    [name |-> name, type_hint |-> type_hint, required |-> required, has_default |-> has_default]

\* the parameter lists the @tool decorator builds from the handlers' signatures
Parameters(name) ==
    CASE name = "read" ->
            <<Param("path", "str", TRUE, FALSE), Param("lines", "str", FALSE, FALSE),
              Param("numbered", "bool", FALSE, TRUE)>>
      [] name = "read_lines" ->
            <<Param("path", "str", TRUE, FALSE), Param("start", "int", FALSE, TRUE),
              Param("end", "int", FALSE, FALSE)>>
      [] name = "write" ->
            <<Param("path", "str", TRUE, FALSE), Param("content", "str", TRUE, FALSE),
              Param("append", "bool", FALSE, TRUE), Param("create_dirs", "bool", FALSE, TRUE),
              Param("backup", "bool", FALSE, TRUE)>>
      [] name = "write_lines" ->
            <<Param("path", "str", TRUE, FALSE), Param("content", "str", TRUE, FALSE),
              Param("line", "int", TRUE, FALSE), Param("mode", "str", FALSE, TRUE)>>
      [] name = "patch" ->
            <<Param("path", "str", TRUE, FALSE), Param("old_text", "str", TRUE, FALSE),
              Param("new_text", "str", TRUE, FALSE)>>
      [] name = "grep" ->
            <<Param("pattern", "str", TRUE, FALSE), Param("path_glob", "str", FALSE, TRUE),
              Param("invert", "bool", FALSE, TRUE), Param("regex", "bool", FALSE, TRUE),
              Param("case_sensitive", "bool", FALSE, TRUE), Param("context", "int", FALSE, TRUE),
              Param("includes", "str", FALSE, FALSE), Param("excludes", "str", FALSE, FALSE),
              Param("files_only", "bool", FALSE, TRUE), Param("count_only", "bool", FALSE, TRUE)>>
      [] OTHER -> \* todowrite
            <<Param("content", "str", TRUE, FALSE)>>

\* ToolDefinition as the registry stores it
ToolDefinition(name, requires_permission) ==
    [name |-> name, parameters |-> Parameters(name), requires_permission |-> requires_permission]

\* units int() and float() accept
NumericUnits == {"0", "1", "3", "30"}
IsNumeric(value) == Len(value) = 1 /\ value[1] \in NumericUnits

\* validate with int() and float() accepting any text
validate_AnyNumber(param, supplied, value) ==
    IF ~supplied /\ ~param.has_default /\ param.required
    THEN [valid |-> FALSE, error |-> <<"Required parameter '", param.name, "' is missing">>]
    ELSE [valid |-> TRUE, error |-> NoText]

\* ToolParameter.validate for a value supplied as a string (supplied = TRUE)
\* or taken from the parameter's default
validate(param, supplied, value) ==
    IF ~supplied /\ ~param.has_default /\ param.required
    THEN [valid |-> FALSE, error |-> <<"Required parameter '", param.name, "' is missing">>]
    ELSE IF supplied /\ param.type_hint \in {"int", "float"} /\ ~IsNumeric(value)
    THEN [valid |-> FALSE, error |-> <<"Parameter '", param.name, "' must be of type ", param.type_hint>>]
    ELSE [valid |-> TRUE, error |-> NoText]

\* str(args) of a dict of strings
RECURSIVE StrItems(_)
StrItems(d) ==
    IF d = <<>> THEN <<>>
    ELSE <<"'", d[1][1], "'", ":", " ", "'">> \o d[1][2] \o <<"'">>
         \o (IF Len(d) > 1 THEN <<",", " ">> ELSE <<>>) \o StrItems(Tail(d))
StrDict(d) == <<"{">> \o StrItems(d) \o <<"}">>

\* args.get('path', args.get('url', args.get('cmd', str(args))))
Resource(args) == DictGet(args, "path", DictGet(args, "url", DictGet(args, "cmd", StrDict(args))))

\* first failing validation of the parameter loop of execute, or NoText
RECURSIVE ValidateParams(_, _)
ValidateParams(params, args) ==
    IF params = <<>> THEN NoText
    ELSE LET v == validate(Head(params), DictHas(args, Head(params).name),
                           DictGet(args, Head(params).name, <<>>))
         IN  IF ~v.valid THEN v.error ELSE ValidateParams(Tail(params), args)

\* a Python value with its type; the values parse_tools extracts are str
PyValue(type, value) == [type |-> type, value |-> value]
\* call_args = args.copy(): the keyword arguments the handler is called with
call_args(args) == [i \in 1..Len(args) |-> <<args[i][1], PyValue("str", args[i][2])>>]

\* what a handler does when called: it returns a ToolResult ("ok", "fail"),
\* returns a bare string ("str") or the tuple (True, msg, None) ("tuple"), or
\* raises ("raise" with the message of str(e))
Outcome(kind, msg) == [kind |-> kind, msg |-> msg]
Outcomes == {Outcome("ok", <<"out">>), Outcome("fail", <<"bad">>), Outcome("str", <<"out">>),
             Outcome("tuple", <<"out">>), Outcome("raise", <<"boom">>), Outcome("raise", <<>>)}

\* tool_def.function(**call_args) and the handling of what it returns or
\* raises (try/except of execute, _log_execution included)
CallHandler(name, args, outcome) ==
    LET declared == {tools[name].parameters[i].name : i \in 1..Len(tools[name].parameters)}
        unexpected == \E i \in 1..Len(args) : args[i][1] \notin declared
    IN  IF unexpected
        THEN [invoked |-> FALSE,
              result |-> ToolResult_fail(<<name, "() got an unexpected keyword argument">>,
                                         <<"Traceback">>, "FAILURE")]
        ELSE CASE outcome.kind = "ok" ->
                    [invoked |-> TRUE, result |-> ToolResult_ok(outcome.msg)]
               [] outcome.kind = "fail" ->
                    [invoked |-> TRUE, result |-> ToolResult_fail(outcome.msg, <<>>, "FAILURE")]
               [] outcome.kind \in {"str", "tuple"} ->
                    \* _log_execution reads result.success of a str or tuple:
                    \* AttributeError, caught by the except branch
                    [invoked |-> TRUE,
                     result |-> ToolResult_fail(<<"'", outcome.kind,
                                                  "' object has no attribute 'success'">>,
                                                <<"Traceback">>, "FAILURE")]
               [] OTHER ->
                    [invoked |-> TRUE,
                     result |-> ToolResult_fail(outcome.msg, <<"Traceback">>, "FAILURE")]

\* one execution as the trace records it: the permission checks made and
\* their answers, whether the handler body ran, whether the execution log
\* got an entry, and the ToolResult returned
Exec(name, args, start, checks, invoked, outcome, logged, res) ==
    [name |-> name, args |-> args, start |-> start, checks |-> checks,
     invoked |-> invoked, outcome |-> outcome, logged |-> logged, result |-> res]

\* execute whose permission check does not return: the denial is computed and
\* the call goes on to validation and the handler
execute_NoReturnOnDeny(name, args, outcome, start, checks) ==
    IF name \notin DOMAIN tools
    THEN Exec(name, args, start, checks, FALSE, outcome, FALSE,
              ToolResult_fail(<<"Tool not found: ", name>>, <<>>, "NOT_FOUND"))
    ELSE LET tool_def == tools[name]
             checks2 == IF tool_def.requires_permission
                        THEN Append(checks, check(name, Resource(args))) ELSE checks
             invalid == ValidateParams(tool_def.parameters, args)
             h == CallHandler(name, args, outcome)
         IN  IF invalid # NoText
             THEN Exec(name, args, start, checks2, FALSE, outcome, FALSE,
                       ToolResult_fail(invalid, <<>>, "VALIDATION_ERROR"))
             ELSE Exec(name, args, start, checks2, h.invoked, outcome, TRUE, h.result)

\* ToolRegistry.execute(name, args); start and checks carry the caller's part
execute(name, args, outcome, start, checks) ==
    IF name \notin DOMAIN tools
    THEN Exec(name, args, start, checks, FALSE, outcome, FALSE,
              ToolResult_fail(<<"Tool not found: ", name>>, <<>>, "NOT_FOUND"))
    ELSE CHOOSE executed \in
            {LET tool_def == tools[name]
                 asked == tool_def.requires_permission
                 checks2 == IF asked THEN Append(checks, allowed) ELSE checks
                 invalid == ValidateParams(tool_def.parameters, args)
                 h == CallHandler(name, args, outcome)
             IN  IF asked /\ ~allowed
                 THEN Exec(name, args, start, checks2, FALSE, outcome, FALSE,
                           ToolResult_fail(<<"Permission denied for ", name, " on ">> \o Resource(args),
                                           <<>>, "PERMISSION_DENIED"))
                 ELSE IF invalid # NoText
                 THEN Exec(name, args, start, checks2, FALSE, outcome, FALSE,
                           ToolResult_fail(invalid, <<>>, "VALIDATION_ERROR"))
                 ELSE Exec(name, args, start, checks2, h.invoked, outcome, TRUE, h.result) :
             allowed \in {tools[name].requires_permission => check(name, Resource(args))}} : TRUE

\* RxDsecAgent._execute_tool(tool_call)
_execute_tool(tool_call, outcome) ==
    CHOOSE executed \in
        {IF ~allowed
         THEN Exec(tool_call.name, tool_call.args, tool_call.start, <<allowed>>, FALSE, outcome,
                   FALSE,
                   ToolResult_fail(<<"Permission denied: ", tool_call.name, " on ">>
                                       \o Resource(tool_call.args),
                                   <<>>, "PERMISSION_DENIED"))
         ELSE execute(tool_call.name, tool_call.args, outcome, tool_call.start, <<allowed>>) :
         allowed \in {check(tool_call.name, Resource(tool_call.args))}} : TRUE

\* ------------------------------------------------------ quest orchestrator
\* str.lower() on the units that carry upper-case letters
LowerUnit(u) ==
    CASE u = "All" -> "all"
      [] u = "Done" -> "done"
      [] u = "TASK" -> "task"
      [] u = "COMPLETE" -> "complete"
      [] u = "D" -> "d"
      [] OTHER -> u
Lower(s) == [i \in 1..Len(s) |-> LowerUnit(s[i])]

\* the characters of a response
RECURSIVE RenderArgs(_)
RenderArgs(items) ==
    IF items = <<>> THEN <<>>
    ELSE <<Head(items).key, "=">> \o Head(items).val
         \o (IF Len(items) > 1 THEN <<",">> ELSE <<>>) \o RenderArgs(Tail(items))
RenderTok(t) ==
    CASE t.k = "Tool:" -> <<"Tool:", " ">>
      [] t.k = "$" -> <<"$", " ">>
      [] t.k = "nl" -> <<"\n">>
      [] t.k = "word" -> t.units \o <<" ">>
      [] OTHER -> <<t.name, "(">> \o RenderArgs(t.args) \o <<")">>
Render(txt) == Concat([i \in 1..Len(txt) |-> RenderTok(txt[i])])

completion_markers ==
    << <<"task", " ", "is", " ", "complete">>,
       <<"task", " ", "complete">>,
       <<"successfully", " ", "complete", "d">>,
       <<"all", " ", "steps", " ", "done">>,
       <<"finished">>,
       <<"all", " ", "done">>,
       <<"quest", " ", "complete">> >>

\* _is_task_complete without response.lower()
_is_task_complete_CaseSensitive(response) ==
    \E m \in 1..Len(completion_markers) : IsSubstring(completion_markers[m], Render(response))

\* RxDsecAgent._is_task_complete
_is_task_complete(response) ==
    LET response_lower == Lower(Render(response))
    IN  \E m \in 1..Len(completion_markers) : IsSubstring(completion_markers[m], response_lower)

WRITE_TOOLS == {"write", "write_lines", "patch"}

\* the result dictionary run_quest starts from (steps and tools_used, which
\* no later step reads, are left out)
NewResult == [success |-> FALSE, error |-> NoText, files_modified |-> <<>>, iterations |-> 0]

\* the except branch without result["error"] = str(e)
QuestExcept_NoError(res, message) == [res EXCEPT !.success = FALSE]

\* the except branch of run_quest
QuestExcept(res, message) == [res EXCEPT !.success = FALSE, !.error = message]

\* SessionManager.add_tool_result
add_tool_result(msgs, tool_name, success, output) ==
    Append(msgs, [role |-> "tool", tool_name |-> tool_name, success |-> success,
                  content |-> <<"[Tool: ", tool_name, "] (",
                                IF success THEN "success" ELSE "error", ")\n">> \o output])

\* SessionManager.start_quest / end_quest
start_quest(task) == [quest_id |-> "q1", quest_task |-> task]
end_quest == [quest_id |-> None, quest_task |-> None]

\* the loop condition with <= for <
LoopGuard_Inclusive == effective_turns <= max_iterations

\* the loop condition of run_quest
LoopGuard == effective_turns < max_iterations

\* iteration += 1, folded at MaxRaw
NextIteration == IF iteration < MaxRaw THEN iteration + 1 ELSE MaxRaw

\* the executions the for loop of a cycle makes for the first n calls
RunTools(calls, outcome, n) == [i \in 1..n |-> _execute_tool(calls[i], outcome)]

\* "Track file modifications": looks at the loop variable tool_call, which
\* after the for loop is the last call of the cycle
TrackFiles(files_modified, calls) ==
    LET tool_call == calls[Len(calls)]
        path == DictGet(tool_call.args, "path", <<>>)
    IN  IF tool_call.name \in WRITE_TOOLS /\ path # <<>> /\ ~Contains(files_modified, path)
        THEN Append(files_modified, path)
        ELSE files_modified

\* has_substantive_action set by every call, the meta-tool included
has_substantive_action_AnyCall(calls) == calls # <<>>

\* has_substantive_action after the for loop: some call is not the meta-tool
has_substantive_action(calls) == \E i \in 1..Len(calls) : calls[i].name # "todowrite"

\* ------------------------------------------------------------- inputs
PathA == <<"src", "/", "a", ".py">>
PathB == <<"src", "/", "b", ".py">>
PathC == <<"docs", "/", "c", ".md">>
PathEnv == <<"x", "/", ".env">>

CallRead == Call("read", <<Arg("path", "dq", <<"a", ".py">>)>>)
CallGrep == Call("grep", <<Arg("pattern", "dq", <<"foo">>),
                           Arg("path_glob", "dq", <<"*", "*", "/", "*", ".py">>)>>)
CallNope == Call("nope", <<Arg("x", "dq", <<"1">>)>>)
CallTodo == Call("todowrite", <<Arg("content", "dq", <<"x">>)>>)
CallTodoDone == Call("todowrite", <<Arg("content", "sq", <<"All", " ", "Done">>)>>)
CallReadEnv == Call("read", <<Arg("path", "bare", PathEnv)>>)
CallWriteA == Call("write", <<Arg("path", "dq", PathA), Arg("content", "dq", <<"x">>)>>)
CallWriteB == Call("write", <<Arg("path", "dq", PathB), Arg("content", "dq", <<"x">>)>>)
CallWriteLinesC == Call("write_lines", <<Arg("path", "dq", PathC), Arg("content", "dq", <<"x">>),
                                         Arg("line", "bare", <<"1">>)>>)
CallPatchNoPath == Call("patch", <<Arg("old_text", "dq", <<"x">>), Arg("new_text", "dq", <<"y">>)>>)

\* free text of a response, with whether it holds a completion phrase
\* (case-insensitively): "All Done", "TASK COMPLETED", "unfinished" do,
\* "thinking", "all steps", "Done all" do not
Phrases == {<<"All", " ", "Done">>, <<"TASK", " ", "COMPLETE", "D">>, <<"un", "finished">>}
NonPhrases == {<<"thinking">>, <<"all", " ", "steps">>, <<"Done", " ", "all">>}

\* the responses the backend gives when it emits only meta-tool calls
MetaResponses ==
    { <<PrefixTool, CallTodo>>,
      <<PrefixShell, CallTodo, Newline, PrefixTool, CallTodoDone>> }

\* the responses the backend gives otherwise
Responses ==
    MetaResponses
    \cup {<<Word(w)>> : w \in Phrases \cup NonPhrases}
    \cup { <<PrefixTool, CallNope, Newline, Word(<<"All", " ", "Done">>)>>,
           <<PrefixTool, CallNope>>,
           <<PrefixTool, CallRead>>,
           <<CallReadEnv>>,
           <<PrefixShell, CallTodo, Newline, PrefixTool, CallWriteA>>,
           <<PrefixTool, CallWriteA, Newline, PrefixTool, CallTodo>>,
           <<CallWriteB, Newline, PrefixShell, CallWriteLinesC>>,
           <<PrefixTool, CallWriteLinesC, Newline, PrefixTool, CallTodo>>,
           <<PrefixShell, CallWriteLinesC>>,
           <<CallPatchNoPath>> }

BackendResponses == IF backend = "meta_only" THEN MetaResponses ELSE Responses

\* the registry RxDsecAgent._init_components builds
BuiltinTools == {"read", "read_lines", "write", "write_lines", "patch", "grep", "todowrite"}
Registry(names, requires_permission) ==
    [n \in names |-> ToolDefinition(n, requires_permission)]

\* contents of <workspace>/.rxdsec/permissions.yaml
LocalConfigs ==
    { [rules |-> <<>>, active_preset |-> None],
      [rules |-> <<>>, active_preset |-> "readonly"],
      [rules |-> <<Rule("deny", "all", <<"todowrite", ":", "*">>, 5)>>, active_preset |-> "security"] }

\* the record of a cycle: what it was, the counter before it, what it raised,
\* and how many entries the session held when it began
Cycle(kind, before, raised) ==
    [kind |-> kind, before |-> before, raised |-> raised, entries |-> Len(messages)]
NoCycle == [kind |-> "none", before |-> 0, raised |-> NoText, entries |-> 0]

\* ---------------------------------------------------- run_quest: actions
Init ==
    /\ pc = "idle"
    /\ backend \in {"any", "meta_only"}
    /\ tools = Registry(BuiltinTools, TRUE)
    /\ global_file = DEFAULT_CONFIG
    /\ local_file \in LocalConfigs
    /\ confirmation_cache = {}
    /\ max_iterations = 0
    /\ iteration = 0
    /\ effective_turns = 0
    /\ result = NewResult
    /\ text = <<>>
    /\ tool_calls = <<>>
    /\ exec_trace = <<>>
    /\ cycle = NoCycle
    /\ session = end_quest
    /\ messages = <<>>

Frame == UNCHANGED <<backend, tools, global_file, local_file, confirmation_cache>>
QuestFrame == Frame /\ UNCHANGED messages

\* run_quest up to the try: start_quest and the fresh result
StartQuest ==
    /\ pc = "idle"
    /\ \E m \in 0..MaxIter : max_iterations' = m
    /\ session' = start_quest("task")
    /\ result' = NewResult
    /\ pc' = "planning"
    /\ UNCHANGED <<iteration, effective_turns, text, tool_calls, exec_trace, cycle>>
    /\ QuestFrame

\* _create_plan returns; iteration = 0, effective_turns = 0
CreatePlan ==
    /\ pc = "planning"
    /\ iteration' = 0
    /\ effective_turns' = 0
    /\ pc' = "iterating"
    /\ UNCHANGED <<max_iterations, result, text, tool_calls, exec_trace, cycle, session>>
    /\ QuestFrame

\* _create_plan raises (the backend call of planning fails)
PlanRaises ==
    /\ pc = "planning"
    /\ backend = "any"
    /\ \E message \in {<<"Model not found">>, <<>>} :
          /\ result' = QuestExcept(result, message)
          /\ cycle' = Cycle("plan_error", effective_turns, message)
    /\ pc' = "returned"
    /\ UNCHANGED <<max_iterations, iteration, effective_turns, text, tool_calls, exec_trace, session>>
    /\ QuestFrame

\* the while condition is false: the code after the loop, then return
LoopExit ==
    /\ pc = "iterating"
    /\ ~LoopGuard
    /\ session' = end_quest
    /\ pc' = "returned"
    /\ UNCHANGED <<max_iterations, iteration, effective_turns, result, text, tool_calls,
                   exec_trace, cycle>>
    /\ QuestFrame

\* a cycle whose backend call raises
CycleBackendRaises ==
    /\ pc = "iterating"
    /\ LoopGuard
    /\ backend = "any"
    /\ iteration' = NextIteration
    /\ \E message \in {<<"Generation error">>} :
          /\ result' = QuestExcept([result EXCEPT !.iterations = NextIteration], message)
          /\ cycle' = Cycle("error", effective_turns, message)
    /\ exec_trace' = <<>>
    /\ pc' = "returned"
    /\ UNCHANGED <<max_iterations, effective_turns, text, tool_calls, session>>
    /\ QuestFrame

\* a cycle whose response has no call and reads as complete: break, then the
\* code after the loop
CycleComplete ==
    /\ pc = "iterating"
    /\ LoopGuard
    /\ \E response \in BackendResponses :
          /\ text' = response
          /\ parse_tools(response, DOMAIN tools) = <<>>
          /\ _is_task_complete(response)
    /\ tool_calls' = <<>>
    /\ exec_trace' = <<>>
    /\ iteration' = NextIteration
    /\ result' = [result EXCEPT !.iterations = NextIteration, !.success = TRUE]
    /\ cycle' = Cycle("complete", effective_turns, NoText)
    /\ session' = end_quest
    /\ pc' = "returned"
    /\ UNCHANGED <<max_iterations, effective_turns>>
    /\ QuestFrame

\* a cycle whose response has no call and does not read as complete
CycleThinking ==
    /\ pc = "iterating"
    /\ LoopGuard
    /\ \E response \in BackendResponses :
          /\ text' = response
          /\ parse_tools(response, DOMAIN tools) = <<>>
          /\ ~_is_task_complete(response)
    /\ tool_calls' = <<>>
    /\ exec_trace' = <<>>
    /\ iteration' = NextIteration
    /\ result' = [result EXCEPT !.iterations = NextIteration]
    /\ effective_turns' = effective_turns + 1
    /\ cycle' = Cycle("thinking", effective_turns, NoText)
    /\ UNCHANGED <<pc, max_iterations, session>>
    /\ QuestFrame

\* the outcomes the handlers of a quest's calls have
QuestOutcomes == {Outcome("ok", <<"out">>), Outcome("raise", <<"boom">>)}

\* a cycle whose response has calls: every call is executed, then the
\* counter, the file tracking and the step record; on_step may raise at the end
CycleTools ==
    /\ pc = "iterating"
    /\ LoopGuard
    /\ \E response \in BackendResponses, outcome \in QuestOutcomes :
       /\ text' = response
       /\ \E calls \in {parse_tools(response, DOMAIN tools)} :
          /\ calls # <<>>
          /\ tool_calls' = calls
          /\ \E trace \in {RunTools(calls, outcome, Len(calls))} :
                /\ exec_trace' = trace
                /\ messages' = IF has_substantive_action(calls)
                               THEN add_tool_result(messages, calls[Len(calls)].name,
                                                    trace[Len(trace)].result.success,
                                                    trace[Len(trace)].result.output)
                               ELSE messages
          /\ effective_turns' = IF has_substantive_action(calls) THEN effective_turns + 1
                                ELSE effective_turns
          /\ \E res \in {[result EXCEPT !.iterations = NextIteration,
                                        !.files_modified =
                                            IF has_substantive_action(calls)
                                            THEN TrackFiles(result.files_modified, calls)
                                            ELSE result.files_modified]} :
             \E on_step_raises \in IF backend = "any" THEN BOOLEAN ELSE {FALSE} :
                /\ result' = IF on_step_raises THEN QuestExcept(res, <<"on_step failed">>) ELSE res
                /\ pc' = IF on_step_raises THEN "returned" ELSE "iterating"
                /\ cycle' = IF on_step_raises
                             THEN Cycle("error", effective_turns, <<"on_step failed">>)
                             ELSE Cycle("tools", effective_turns, NoText)
    /\ iteration' = NextIteration
    /\ UNCHANGED <<max_iterations, session>>
    /\ Frame

\* a cycle in which the processing of call n raises after calls 1..n ran
CycleToolRaises ==
    /\ pc = "iterating"
    /\ LoopGuard
    /\ backend = "any"
    /\ \E response \in BackendResponses, outcome \in QuestOutcomes :
       /\ text' = response
       /\ \E calls \in {parse_tools(response, DOMAIN tools)} :
          /\ calls # <<>>
          /\ tool_calls' = calls
          /\ \E trace \in {RunTools(calls, outcome, Len(calls))} :
             \E n \in 1..Len(calls) : exec_trace' = SubSeq(trace, 1, n)
    /\ iteration' = NextIteration
    /\ result' = QuestExcept([result EXCEPT !.iterations = NextIteration], <<"tool step failed">>)
    /\ cycle' = Cycle("error", effective_turns, <<"tool step failed">>)
    /\ pc' = "returned"
    /\ UNCHANGED <<max_iterations, effective_turns, session>>
    /\ QuestFrame

Next ==
    \/ StartQuest
    \/ CreatePlan
    \/ PlanRaises
    \/ LoopExit
    \/ CycleBackendRaises
    \/ CycleComplete
    \/ CycleThinking
    \/ CycleTools
    \/ CycleToolRaises

Spec == Init /\ [][Next]_vars

\* the loop runs on whenever it can: no step of run_quest waits on anything
\* but the backend, which always answers
FairSpec == Init /\ [][Next]_vars /\ WF_vars(Next)

\* --------------------------------------------- the parser, driven alone
ParseTokens == {PrefixTool, PrefixShell, Newline, CallRead, CallGrep, CallNope}
Texts == UNION {[1..n -> ParseTokens] : n \in 0..MaxToks}

\* `Tool: read(path="a.py")\nTool: grep(pattern="foo", path_glob="**/*.py")`
TextReadGrep == <<PrefixTool, CallRead, Newline, PrefixTool, CallGrep>>
\* `Tool: nope(x="1")`
TextNope == <<PrefixTool, CallNope>>
\* `$ grep(...)\nTool: read(...)`
TextShellThenTool == <<PrefixShell, CallGrep, Newline, PrefixTool, CallRead>>

ParseInit ==
    /\ pc = "parse"
    /\ text \in Texts \cup {TextReadGrep, TextNope, TextShellThenTool}
    /\ tools \in {Registry({"read"}, TRUE), Registry({"read", "grep"}, TRUE)}
    /\ backend = "any"
    /\ global_file = DEFAULT_CONFIG
    /\ local_file = [rules |-> <<>>, active_preset |-> None]
    /\ confirmation_cache = {}
    /\ max_iterations = 0
    /\ iteration = 0
    /\ effective_turns = 0
    /\ result = NewResult
    /\ tool_calls = <<>>
    /\ exec_trace = <<>>
    /\ cycle = NoCycle
    /\ session = end_quest
    /\ messages = <<>>

\* tool_calls = self.parse_tools(text)
ParseText ==
    /\ pc = "parse"
    /\ tool_calls' = parse_tools(text, DOMAIN tools)
    /\ pc' = "parsed"
    /\ UNCHANGED <<backend, tools, global_file, local_file, confirmation_cache, max_iterations,
                   iteration, effective_turns, result, text, exec_trace, cycle, session,
                   messages>>

ParseNext == ParseText

ParseSpec == ParseInit /\ [][ParseNext]_vars

\* ------------------------------ registry and permission check, driven alone
CallWriteLinesBad == Call("write_lines", <<Arg("path", "dq", PathC), Arg("content", "dq", <<"x">>),
                                           Arg("line", "bare", <<"abc">>)>>)
CallReadExtra == Call("read", <<Arg("path", "dq", PathA), Arg("x", "dq", <<"1">>)>>)
CallReadA == Call("read", <<Arg("path", "dq", PathA)>>)

\* the calls the registry is driven with, as parse_tools hands them over
DrivenCalls ==
    {ToolCall(c.name, ParseArgs(c.args, <<>>), 0, 1) :
        c \in {CallReadA, CallReadEnv, CallWriteA, CallWriteLinesC, CallWriteLinesBad,
               CallPatchNoPath, CallTodo, CallNope, CallReadExtra}}

\* the keys ask_once is called with
AskKeys == {cache_key("write", PathA)}

ToolInit ==
    /\ pc = "tool"
    /\ tools \in {Registry(BuiltinTools, TRUE), Registry(BuiltinTools, FALSE)}
    /\ local_file \in LocalConfigs
    /\ global_file = DEFAULT_CONFIG
    /\ confirmation_cache = {}
    /\ backend = "any"
    /\ max_iterations = 0
    /\ iteration = 0
    /\ effective_turns = 0
    /\ result = NewResult
    /\ text = <<>>
    /\ tool_calls = <<>>
    /\ exec_trace = <<>>
    /\ cycle = NoCycle
    /\ session = end_quest
    /\ messages = <<>>

ToolFrame == UNCHANGED <<backend, tools, global_file, local_file, max_iterations, iteration,
                         effective_turns, result, text, cycle, session, messages>>

\* registry.execute(name, args) called directly
RegistryExecute ==
    /\ pc = "tool"
    /\ \E call \in DrivenCalls, outcome \in Outcomes :
          /\ tool_calls' = <<call>>
          /\ exec_trace' = <<execute(call.name, call.args, outcome, call.start, <<>>)>>
    /\ pc' = "executed"
    /\ UNCHANGED confirmation_cache
    /\ ToolFrame

\* agent._execute_tool(tool_call)
AgentExecuteTool ==
    /\ pc = "tool"
    /\ \E call \in DrivenCalls, outcome \in Outcomes :
          /\ tool_calls' = <<call>>
          /\ exec_trace' = <<_execute_tool(call, outcome)>>
    /\ pc' = "tool_done"
    /\ UNCHANGED confirmation_cache
    /\ ToolFrame

\* PermissionsEngine.ask_once(key, default=default)
ask_once ==
    /\ pc = "tool"
    /\ \E key \in AskKeys, default \in BOOLEAN :
          confirmation_cache' = IF CacheHas(confirmation_cache, key) THEN confirmation_cache
                                ELSE confirmation_cache \cup {<<key, default>>}
    /\ UNCHANGED <<pc, tool_calls, exec_trace>>
    /\ ToolFrame

ToolNext == RegistryExecute \/ AgentExecuteTool \/ ask_once

ToolSpec == ToolInit /\ [][ToolNext]_vars

\* --------------------------------------- the permission engine, driven alone
MaxRules == 2       \* add_rule is driven on files that hold fewer than MaxRules rules

\* a configuration file that does not exist
Missing == [missing |-> TRUE]

\* _ensure_config on one file: a missing file is created with DEFAULT_CONFIG
_ensure_config(file) == IF file = Missing THEN DEFAULT_CONFIG ELSE file

\* ~/.rxdsec/permissions.yaml before the engine is constructed
UserRules == <<Rule("deny", "write", <<"*", "*", "/", ".env", "*">>, 10),
               Rule("allow", "write", <<"*", "*", "/", "*", ".py">>, 0)>>
GlobalFiles == {Missing, [rules |-> UserRules, active_preset |-> None],
                [rules |-> <<>>, active_preset |-> None],
                [rules |-> <<Rule("deny", "write", <<"*", "*", "/", "*">>, 0)>>,
                 active_preset |-> "open"]}
\* <workspace>/.rxdsec/permissions.yaml before the engine is constructed
LocalFiles == {Missing} \cup LocalConfigs

\* the (tool, resource) pairs check is called with
PathDotEnv == <<".env">>
PathApp == <<"app", ".py">>
CheckPairs == {<<"write", PathDotEnv>>, <<"write", PathApp>>, <<"write", PathA>>,
               <<"read", PathEnv>>, <<"todowrite", <<"x">>>>}
\* the pairs ask_once is called for
AskPairs == {<<"write", PathA>>}
\* the arguments of set_preset and of add_rule
PresetNames == {None, "security", "open", "readonly", "bogus"}
AddedRule == Rule("deny", "write", <<"*", "*", "/", "*", ".py">>, 20)

\* one operation on the engine and what it returned
Op(op, action, target, returned) ==
    [op |-> op, action |-> action, target |-> target, returned |-> returned]

PermInit ==
    /\ pc = "engine"
    /\ global_file \in {_ensure_config(f) : f \in GlobalFiles}
    /\ local_file \in {_ensure_config(f) : f \in LocalFiles}
    /\ confirmation_cache = {}
    /\ exec_trace = <<>>
    /\ backend = "any"
    /\ tools = Registry(BuiltinTools, TRUE)
    /\ max_iterations = 0
    /\ iteration = 0
    /\ effective_turns = 0
    /\ result = NewResult
    /\ text = <<>>
    /\ tool_calls = <<>>
    /\ cycle = NoCycle
    /\ session = end_quest
    /\ messages = <<>>

PermFrame == UNCHANGED <<pc, backend, tools, max_iterations, iteration, effective_turns, result,
                         text, tool_calls, cycle, session, messages>>

\* permissions.check(action, target)
Check ==
    /\ pc = "engine"
    /\ \E pair \in CheckPairs :
          exec_trace' = <<Op("check", pair[1], pair[2], check(pair[1], pair[2]))>>
    /\ UNCHANGED <<global_file, local_file, confirmation_cache>>
    /\ PermFrame

\* ask_once that stores and returns the default whatever the cache holds
AskOnce_Overwrite ==
    /\ pc = "engine"
    /\ \E pair \in AskPairs, default \in BOOLEAN :
       \E key \in {cache_key(pair[1], pair[2])} :
          /\ confirmation_cache' = {e \in confirmation_cache : e[1] # key} \cup {<<key, default>>}
          /\ exec_trace' = <<Op("ask_once", pair[1], pair[2], default)>>
    /\ UNCHANGED <<global_file, local_file>>
    /\ PermFrame

\* permissions.ask_once(f"{action}:{target}", default=default)
AskOnce ==
    /\ pc = "engine"
    /\ \E pair \in AskPairs, default \in BOOLEAN :
       \E key \in {cache_key(pair[1], pair[2])} :
          /\ confirmation_cache' = IF CacheHas(confirmation_cache, key) THEN confirmation_cache
                                   ELSE confirmation_cache \cup {<<key, default>>}
          /\ exec_trace' = <<Op("ask_once", pair[1], pair[2],
                                IF CacheHas(confirmation_cache, key)
                                THEN CacheGet(confirmation_cache, key) ELSE default)>>
    /\ UNCHANGED <<global_file, local_file>>
    /\ PermFrame

\* set_preset rewriting the local file with nothing but the preset name
SetPresetFile_DropRules(file, preset_name) == [rules |-> <<>>, active_preset |-> preset_name]

\* the local file set_preset saves: config["active_preset"] = preset_name
SetPresetFile(file, preset_name) == [file EXCEPT !.active_preset = preset_name]

\* permissions.set_preset(preset_name); an unknown name raises ValueError
set_preset ==
    /\ pc = "engine"
    /\ \E preset_name \in PresetNames :
          IF preset_name # None /\ preset_name \notin DOMAIN PRESETS
          THEN /\ exec_trace' = <<Op("set_preset", preset_name, <<>>, "ValueError")>>
               /\ UNCHANGED local_file
          ELSE /\ exec_trace' = <<Op("set_preset", preset_name, <<>>, None)>>
               /\ local_file' = SetPresetFile(local_file, preset_name)
    /\ UNCHANGED <<global_file, confirmation_cache>>
    /\ PermFrame

\* permissions.add_rule(action, category, pattern, priority, local)
add_rule ==
    /\ pc = "engine"
    /\ \E local \in BOOLEAN :
          /\ Len((IF local THEN local_file ELSE global_file).rules) < MaxRules
          /\ exec_trace' = <<Op("add_rule", local, <<>>, None)>>
          /\ IF local
             THEN /\ local_file' = [local_file EXCEPT !.rules = Append(@, AddedRule)]
                  /\ UNCHANGED global_file
             ELSE /\ global_file' = [global_file EXCEPT !.rules = Append(@, AddedRule)]
                  /\ UNCHANGED local_file
    /\ UNCHANGED confirmation_cache
    /\ PermFrame

PermNext == Check \/ AskOnce \/ set_preset \/ add_rule

PermSpec == PermInit /\ [][PermNext]_vars

\* ------------------------------------------------ the session, driven alone
MaxMsgs == 10       \* longest session prune_context is driven on

\* a message of the session: content is its length in characters, timestamp
\* the time it was added
Message(role, content, timestamp) == [role |-> role, content |-> content, timestamp |-> timestamp]

CHARS_PER_TOKEN_CONVERSATION == 3
CHARS_PER_TOKEN_TOOL == 5
CHARS_PER_TOKEN_SYSTEM == 4
TOOL_FLOOR == 2
CONVERSATION_FLOOR == 5
TRUNCATE_MIN == 200
MARKER_LEN == 28

\* SessionManager.estimate_tokens
RECURSIVE SumTokens(_)
SumTokens(msgs) ==
    IF msgs = <<>> THEN 0
    ELSE (IF Head(msgs).role \in {"user", "assistant"}
          THEN Head(msgs).content \div CHARS_PER_TOKEN_CONVERSATION
          ELSE IF Head(msgs).role = "tool" THEN Head(msgs).content \div CHARS_PER_TOKEN_TOOL
          ELSE Head(msgs).content \div CHARS_PER_TOKEN_SYSTEM)
         + SumTokens(Tail(msgs))
estimate_tokens(msgs) == SumTokens(msgs) + Len(msgs)

\* [m for m in self.messages if m.get("role") in roles]
OfRoles(msgs, roles) == SelectSeq(msgs, LAMBDA m : m.role \in roles)

\* list.remove(x): the first element equal to x goes, ValueError (passed over)
\* when there is none
remove(msgs, x) ==
    IF ~Contains(msgs, x) THEN msgs
    ELSE LET at == CHOOSE i \in 1..Len(msgs) : msgs[i] = x /\ \A j \in 1..(i - 1) : msgs[j] # x
         IN  SubSeq(msgs, 1, at - 1) \o SubSeq(msgs, at + 1, Len(msgs))

\* list.pop() for list.pop(0): the newest entry of the class is taken
pop_0_Newest(list) == list[Len(list)]

\* list.pop(0)
pop_0(list) == list[1]

\* one removal loop of prune_context: while over budget and the class holds
\* more than floor entries, its pop(0) is removed from the session
RECURSIVE RemoveWhileOver(_, _, _, _)
RemoveWhileOver(msgs, class, floor, max_tokens) ==
    IF estimate_tokens(msgs) > max_tokens /\ Len(class) > floor
    THEN RemoveWhileOver(remove(msgs, pop_0(class)), remove(class, pop_0(class)), floor, max_tokens)
    ELSE msgs

\* message_indices.sort(key=length, reverse=True): stable, longest first
RECURSIVE LongestFirst(_, _)
LongestFirst(msgs, idxs) ==
    IF idxs = {} THEN <<>>
    ELSE CHOOSE sorted \in
            {<<first>> \o LongestFirst(msgs, idxs \ {first}) :
                first \in {i \in idxs : \A j \in idxs :
                              \/ msgs[j].content < msgs[i].content
                              \/ (msgs[j].content = msgs[i].content /\ i <= j)}} : TRUE

\* the for loop of _truncate_long_messages over the sorted candidates
RECURSIVE TruncateLoop(_, _, _)
TruncateLoop(msgs, idxs, target_tokens) ==
    IF idxs = <<>> \/ estimate_tokens(msgs) <= target_tokens THEN msgs
    ELSE LET original == msgs[Head(idxs)].content
             new_length == IF original \div 2 > TRUNCATE_MIN THEN original \div 2 ELSE TRUNCATE_MIN
         IN  TruncateLoop([msgs EXCEPT ![Head(idxs)].content = new_length + MARKER_LEN],
                          Tail(idxs), target_tokens)

\* SessionManager._truncate_long_messages
_truncate_long_messages(msgs, target_tokens) ==
    IF estimate_tokens(msgs) <= target_tokens THEN msgs
    ELSE TruncateLoop(msgs,
                      LongestFirst(msgs, {i \in 1..Len(msgs) :
                                            /\ msgs[i].role \in {"user", "assistant", "tool"}
                                            /\ msgs[i].content > TRUNCATE_MIN}),
                      target_tokens)

\* prune_context with each removal loop running one entry below its floor
prune_context_BelowFloor(msgs, max_tokens) ==
    IF estimate_tokens(msgs) <= max_tokens THEN msgs
    ELSE CHOOSE pruned \in
            {IF estimate_tokens(kept) > max_tokens
             THEN _truncate_long_messages(kept, max_tokens) ELSE kept :
                kept \in {RemoveWhileOver(
                             RemoveWhileOver(msgs, OfRoles(msgs, {"tool"}), TOOL_FLOOR - 1,
                                             max_tokens),
                             OfRoles(msgs, {"user", "assistant"}), CONVERSATION_FLOOR - 1,
                             max_tokens)}} : TRUE

\* prune_context with its two removal loops in the other order
prune_context_ConversationFirst(msgs, max_tokens) ==
    IF estimate_tokens(msgs) <= max_tokens THEN msgs
    ELSE CHOOSE pruned \in
            {IF estimate_tokens(kept) > max_tokens
             THEN _truncate_long_messages(kept, max_tokens) ELSE kept :
                kept \in {RemoveWhileOver(
                             RemoveWhileOver(msgs, OfRoles(msgs, {"user", "assistant"}),
                                             CONVERSATION_FLOOR, max_tokens),
                             OfRoles(msgs, {"tool"}), TOOL_FLOOR, max_tokens)}} : TRUE

\* SessionManager.prune_context on the session msgs
prune_context(msgs, max_tokens) ==
    IF estimate_tokens(msgs) <= max_tokens THEN msgs
    ELSE CHOOSE pruned \in
            {IF estimate_tokens(kept) > max_tokens
             THEN _truncate_long_messages(kept, max_tokens) ELSE kept :
                kept \in {RemoveWhileOver(
                             RemoveWhileOver(msgs, OfRoles(msgs, {"tool"}), TOOL_FLOOR, max_tokens),
                             OfRoles(msgs, {"user", "assistant"}), CONVERSATION_FLOOR,
                             max_tokens)}} : TRUE

\* the sessions prune_context is driven on: the first n entries of a
\* conversation of one of two shapes (leading entries, then a repeated turn),
\* each entry of one of two of the lengths (below the 200 of truncation, just
\* above it, far above it)
Shapes ==
    {[lead |-> <<"system">>, turn |-> <<"user", "assistant", "tool">>],
     [lead |-> <<>>, turn |-> <<"user", "tool", "tool", "assistant">>]}
RoleAt(shape, i) ==
    IF i <= Len(shape.lead) THEN shape.lead[i]
    ELSE shape.turn[((i - Len(shape.lead) - 1) % Len(shape.turn)) + 1]
Lengths == {40, 210, 900}
Budgets == {100, 1000, 4000}
Sessions ==
    {[i \in 1..n |-> Message(RoleAt(shape, i), f[i], i)] :
        <<shape, n, f>> \in UNION {Shapes \X {k} \X [1..k -> two] :
                                      k \in 0..MaxMsgs, two \in {S \in SUBSET Lengths : Cardinality(S) = 2}}}

PruneInit ==
    /\ pc = "session"
    /\ messages \in Sessions
    /\ exec_trace = <<>>
    /\ backend = "any"
    /\ tools = Registry(BuiltinTools, TRUE)
    /\ global_file = DEFAULT_CONFIG
    /\ local_file = [rules |-> <<>>, active_preset |-> None]
    /\ confirmation_cache = {}
    /\ max_iterations = 0
    /\ iteration = 0
    /\ effective_turns = 0
    /\ result = NewResult
    /\ text = <<>>
    /\ tool_calls = <<>>
    /\ cycle = NoCycle
    /\ session = end_quest

\* session.prune_context(max_tokens)
PruneContext ==
    /\ pc = "session"
    /\ \E max_tokens \in Budgets :
          /\ messages' = prune_context(messages, max_tokens)
          /\ exec_trace' = <<[op |-> "prune_context", max_tokens |-> max_tokens,
                              before |-> messages]>>
    /\ pc' = "pruned"
    /\ UNCHANGED <<backend, tools, global_file, local_file, confirmation_cache, max_iterations,
                   iteration, effective_turns, result, text, tool_calls, cycle, session>>

PruneNext == PruneContext

PruneSpec == PruneInit /\ [][PruneNext]_vars

\* ------------------------------------- session persistence, driven alone
\* what load finds under the file name: no file, a file that is not JSON, a
\* saved session, a saved session whose created_at is no ISO date
SessionFiles ==
    {[kind |-> "missing"], [kind |-> "corrupt"]} \cup
    {[kind |-> "data", session_id |-> "s0", created_at |-> created_at, quest_id |-> "q0",
      quest_task |-> "old", messages |-> <<Message("user", 40, 0)>>] :
        created_at \in {"2024-01-01T00:00:00", "yesterday"}}

SessionInit ==
    /\ pc = "stored"
    /\ messages \in {m \in Sessions : Len(m) <= 2}
    /\ session \in {end_quest, start_quest("task")}
    /\ exec_trace = <<>>
    /\ backend = "any"
    /\ tools = Registry(BuiltinTools, TRUE)
    /\ global_file = DEFAULT_CONFIG
    /\ local_file = [rules |-> <<>>, active_preset |-> None]
    /\ confirmation_cache = {}
    /\ max_iterations = 0
    /\ iteration = 0
    /\ effective_turns = 0
    /\ result = NewResult
    /\ text = <<>>
    /\ tool_calls = <<>>
    /\ cycle = NoCycle

\* session.load(filename): False for a missing file; the assignments run in
\* order inside the try, whatever raises is caught and gives False.
\* session_id and created_at are the attributes as load leaves them
\* ("own": the ones of this SessionManager)
Load ==
    /\ pc = "stored"
    /\ \E file \in SessionFiles :
          IF file.kind \in {"missing", "corrupt"}
          THEN /\ exec_trace' = <<[op |-> "load", file |-> file, returned |-> FALSE,
                                   raised |-> None, session_id |-> "own",
                                   created_at |-> "own"]>>
               /\ UNCHANGED <<messages, session>>
          ELSE /\ messages' = file.messages
               /\ session' = [quest_id |-> file.quest_id, quest_task |-> file.quest_task]
               /\ exec_trace' =
                     <<[op |-> "load", file |-> file,
                        returned |-> (file.created_at # "yesterday"),
                        raised |-> None, session_id |-> file.session_id,
                        created_at |-> IF file.created_at # "yesterday" THEN file.created_at
                                       ELSE "own"]>>
    /\ pc' = "loaded"
    /\ UNCHANGED <<backend, tools, global_file, local_file, confirmation_cache, max_iterations,
                   iteration, effective_turns, result, text, tool_calls, cycle>>

\* session.save(): open(file_path, 'w') succeeds or raises OSError, which
\* save does not catch; the session is left as it is
Save ==
    /\ pc = "stored"
    /\ \E io \in {"ok", "OSError"} :
          exec_trace' = <<[op |-> "save",
                           file |-> IF io = "ok"
                                    THEN [kind |-> "data", session_id |-> "own",
                                          created_at |-> "own", quest_id |-> session.quest_id,
                                          quest_task |-> session.quest_task,
                                          messages |-> messages]
                                    ELSE [kind |-> "missing"],
                           returned |-> (io = "ok"),
                           raised |-> IF io = "ok" THEN None ELSE io,
                           session_id |-> "own", created_at |-> "own"]>>
    /\ pc' = "saved"
    /\ UNCHANGED <<messages, session, backend, tools, global_file, local_file,
                   confirmation_cache, max_iterations, iteration, effective_turns, result, text,
                   tool_calls, cycle>>

SessionNext == Load \/ Save

SessionSpec == SessionInit /\ [][SessionNext]_vars

\* --------------------------------- the command handlers, driven alone
DEFAULT_TIMEOUT == 600
TEST_TIMEOUT == 300

\* what a command does once started: whether Popen finds the program, how
\* many seconds the process runs, its exit code, and whether the pipes
\* close within the 5 seconds of the communicate that follows a kill
Behaviours ==
    [found : BOOLEAN, duration : {10, 400, 700}, returncode : {0, 1}, drains : BOOLEAN]
\* the cmd arguments: blank, or a command line
Commands == {<<>>, <<"make", " ", "all">>}
\* the timeout arguments of localexec, in seconds: an int, or the str that
\* ToolRegistry.execute hands over for a timeout written in a tool call
Timeouts == {PyValue("int", 30), PyValue("int", DEFAULT_TIMEOUT), PyValue("str", 30)}
\* the framework arguments of run_tests
Frameworks == {None, "pytest", "cargo", "nose"}

\* CommandResult with its success and output properties
CommandResult(returncode, stdout, timed_out, killed) ==
    [returncode |-> returncode, timed_out |-> timed_out, killed |-> killed,
     success |-> (returncode = 0 /\ ~timed_out /\ ~killed),
     output |-> IF stdout = <<>> THEN <<"(no output)">> ELSE stdout]

\* run_command(cmd, timeout=timeout): the CommandResult and what became of
\* the process. communicate(timeout) raises TypeError on a timeout that is
\* no number (endtime = _time() + timeout), caught by `except Exception`
\* with the process started and not waited for; it returns when the process
\* ends within the timeout; otherwise TimeoutExpired: kill, communicate(5),
\* timed_out
run_command(cmd, timeout, b) ==
    IF ~b.found
    THEN [result |-> CommandResult(127, <<"STDERR:\n", "Command not found">>, FALSE, FALSE),
          process |-> "not_started"]
    ELSE IF timeout.type # "int"
    THEN [result |-> CommandResult(-1, <<"STDERR:\n", "unsupported operand type(s) for +">>,
                                   FALSE, FALSE),
          process |-> "running"]
    ELSE IF b.duration <= timeout.value
    THEN [result |-> CommandResult(b.returncode, <<"out">>, FALSE, FALSE), process |-> "exited"]
    ELSE [result |-> CommandResult(-1, IF b.drains THEN <<"out">> ELSE <<>>, TRUE, TRUE),
          process |-> "killed"]

\* the localexec handler: the ToolResult and what became of the process
localexec(cmd, timeout, work_dir_exists, b) ==
    IF cmd = <<>>
    THEN [result |-> ToolResult_fail(<<"Empty command">>, <<>>, "VALIDATION_ERROR"),
          process |-> "not_started"]
    ELSE IF ~work_dir_exists
    THEN [result |-> ToolResult_fail(<<"Working directory not found">>, <<>>, "NOT_FOUND"),
          process |-> "not_started"]
    ELSE CHOOSE returned \in
            {[result |->
                 IF ran.result.timed_out
                 THEN ToolResult_fail(<<"Command timed out after ", ToString(timeout.value),
                                        " seconds">>, ran.result.output, "TIMEOUT")
                 ELSE IF ran.result.success THEN ToolResult_ok(ran.result.output)
                 ELSE ToolResult_fail(<<"Command failed with exit code ",
                                        ToString(ran.result.returncode)>>,
                                      ran.result.output, "FAILURE"),
              process |-> ran.process] : ran \in {run_command(cmd, timeout, b)}} : TRUE

\* the shell handler
shell(cmd, work_dir_exists, b) ==
    localexec(cmd, PyValue("int", DEFAULT_TIMEOUT), work_dir_exists, b)

\* the run_tests handler; without a framework one is detected, pytest when
\* nothing tells
run_tests(framework, work_dir_exists, b) ==
    IF framework \notin {None, "pytest", "cargo", "npm", "jest", "go", "maven"}
    THEN [result |-> ToolResult_fail(<<"Unknown test framework: ", framework>>, <<>>,
                                     "VALIDATION_ERROR"),
          process |-> "not_started"]
    ELSE localexec(IF framework = "cargo" THEN <<"cargo", " ", "test">>
                   ELSE <<"python", " ", "-m", " ", "pytest", " ", ".">>,
                   PyValue("int", TEST_TIMEOUT), work_dir_exists, b)

\* one call of a handler as the trace records it: the timeout in force, the
\* behaviour of the command, and what the handler returned
Ran(handler, cmd, timeout, work_dir_exists, b, returned) ==
    [op |-> handler, cmd |-> cmd, timeout |-> timeout, work_dir_exists |-> work_dir_exists,
     behaviour |-> b, raised |-> None, result |-> returned.result,
     process |-> returned.process]

ExecInit ==
    /\ pc = "handlers"
    /\ exec_trace = <<>>
    /\ messages = <<>>
    /\ session = end_quest
    /\ backend = "any"
    /\ tools = Registry(BuiltinTools, TRUE)
    /\ global_file = DEFAULT_CONFIG
    /\ local_file = [rules |-> <<>>, active_preset |-> None]
    /\ confirmation_cache = {}
    /\ max_iterations = 0
    /\ iteration = 0
    /\ effective_turns = 0
    /\ result = NewResult
    /\ text = <<>>
    /\ tool_calls = <<>>
    /\ cycle = NoCycle

ExecFrame == UNCHANGED <<messages, session, backend, tools, global_file, local_file,
                         confirmation_cache, max_iterations, iteration, effective_turns,
                         result, text, tool_calls, cycle>>

\* localexec(cmd, timeout=timeout)
Localexec ==
    /\ pc = "handlers"
    /\ \E cmd \in Commands, timeout \in Timeouts, work_dir_exists \in BOOLEAN, b \in Behaviours :
          exec_trace' = <<Ran("localexec", cmd, timeout, work_dir_exists, b,
                              localexec(cmd, timeout, work_dir_exists, b))>>
    /\ pc' = "handled"
    /\ ExecFrame

\* shell(cmd)
Shell ==
    /\ pc = "handlers"
    /\ \E cmd \in Commands, work_dir_exists \in BOOLEAN, b \in Behaviours :
          exec_trace' = <<Ran("shell", cmd, PyValue("int", DEFAULT_TIMEOUT), work_dir_exists, b,
                              shell(cmd, work_dir_exists, b))>>
    /\ pc' = "handled"
    /\ ExecFrame

\* run_tests(framework=framework)
RunTests ==
    /\ pc = "handlers"
    /\ \E framework \in Frameworks, work_dir_exists \in BOOLEAN, b \in Behaviours :
          exec_trace' = <<Ran("run_tests", <<framework>>, PyValue("int", TEST_TIMEOUT),
                              work_dir_exists, b,
                              run_tests(framework, work_dir_exists, b))>>
    /\ pc' = "handled"
    /\ ExecFrame

ExecNext == Localexec \/ Shell \/ RunTests

ExecSpec == ExecInit /\ [][ExecNext]_vars

\* ================================================================ claims
NonMetaExecuted == \E i \in 1..Len(exec_trace) : exec_trace[i].name # "todowrite"
CycleEnded == cycle.kind \in {"thinking", "tools", "complete"}

\* C1: with a finite max_iterations and a backend that answers every cycle
\* with only todowrite calls, run_quest eventually returns.
C1_MetaOnlyQuestReturns == (backend = "meta_only") => <>(pc = "returned")

\* C2 as stated: in a cycle the effective-turn counter is incremented if and
\* only if a non-meta call was executed in it; thinking cycles leave it unchanged.
C2_CountsOnlyNonMeta ==
    CycleEnded =>
        /\ effective_turns \in {cycle.before, cycle.before + 1}
        /\ (effective_turns = cycle.before + 1) <=> NonMetaExecuted

\* C2 amended: in a cycle that ends without an error the counter is
\* incremented if and only if a non-meta call was executed in it or it was a
\* no-call thinking cycle; all-todowrite cycles and the completing cycle
\* leave it unchanged.
C2_CountsNonMetaAndThinking ==
    CycleEnded =>
        /\ effective_turns \in {cycle.before, cycle.before + 1}
        /\ (effective_turns = cycle.before + 1) <=> (NonMetaExecuted \/ cycle.kind = "thinking")

\* a cycle of todowrite calls only has run and left the counter where it was
C2_Witness ==
    /\ cycle.kind = "tools"
    /\ exec_trace # <<>>
    /\ ~NonMetaExecuted
    /\ effective_turns = cycle.before

\* C3: no cycle starts once the effective-turn counter has reached
\* max_iterations, the counter never exceeds max_iterations, and a quest that
\* ends without completion phrase and without error returns success = false
\* with error unset.
C3_StopsAtMaxIterations ==
    /\ effective_turns <= max_iterations
    /\ cycle.kind \in {"thinking", "tools", "complete", "error"} => cycle.before < max_iterations
    /\ (pc = "returned" /\ cycle.kind \in {"none", "thinking", "tools"}) =>
          /\ effective_turns = max_iterations
          /\ result.success = FALSE
          /\ result.error = NoText

\* the budget of a quest with max_iterations > 0 is used up and it returned
C3_Witness ==
    /\ pc = "returned"
    /\ max_iterations > 0
    /\ cycle.kind \in {"thinking", "tools"}
    /\ effective_turns = max_iterations
    /\ result.success = FALSE
    /\ result.error = NoText

\* the last response holds a completion phrase, by the table of the inputs
SaysComplete(txt) == \E i \in 1..Len(txt) : txt[i].k = "word" /\ txt[i].units \in Phrases

\* C4: run_quest has success = true if and only if a cycle's response gave
\* zero tool calls and held a completion phrase (in any letter case), and
\* that cycle is the last one.
C4_SuccessIffCompletionPhrase ==
    /\ result.success <=> (cycle.kind # "none" /\ tool_calls = <<>> /\ SaysComplete(text))
    /\ result.success => (pc = "returned" /\ cycle.kind = "complete" /\ exec_trace = <<>>)

\* a quest returned success on a response with a phrase and no call
C4_Witness ==
    /\ pc = "returned"
    /\ result.success
    /\ SaysComplete(text)
    /\ tool_calls = <<>>

\* C5: when planning or a step of a cycle raises, the quest ends at once and
\* the result carries success = false and the raised message as error.
C5_ErrorEndsQuest ==
    cycle.raised # NoText =>
        /\ pc = "returned"
        /\ result.success = FALSE
        /\ result.error = cycle.raised

\* a cycle raised after at least one tool ran, and the quest returned
C5_Witness ==
    /\ cycle.kind = "error"
    /\ cycle.raised # NoText
    /\ exec_trace # <<>>
    /\ pc = "returned"

\* C6: the calls of one cycle are executed in ascending order of their
\* position in the response text, whatever forms the response mixes.
C6_ExecutedInTextOrder ==
    \A i, j \in 1..Len(exec_trace) : i < j => exec_trace[i].start < exec_trace[j].start

\* the call tokens of a text that one of the three forms introduces
Occurrences(txt) ==
    SelectSeq(Idx(Len(txt)),
              LAMBDA i : /\ txt[i].k = "call"
                         /\ \/ txt[i].name \in BARE_NAMES
                            \/ \E p \in 1..(i - 1) : txt[p].k \in {"Tool:", "$"} /\ CallAfter(txt, p) = i)

\* C7: parse_tools yields exactly one call per occurrence whose name is
\* registered, in text order, and none for an unregistered name.
C7_OneCallPerOccurrence ==
    pc = "parsed" =>
        LET occ == SelectSeq(Occurrences(text), LAMBDA i : text[i].name \in DOMAIN tools)
        IN  /\ Len(tool_calls) = Len(occ)
            /\ \A n \in 1..Len(occ) :
                  /\ tool_calls[n].name = text[occ[n]].name
                  /\ tool_calls[n].args = ParseArgs(text[occ[n]].args, <<>>)

\* C8: when check answers false for a call, the handler is not invoked and
\* the result is PERMISSION_DENIED with success = false, through
\* _execute_tool and through ToolRegistry.execute.
C8_DenialShortCircuits ==
    \A i \in 1..Len(exec_trace) :
        Contains(exec_trace[i].checks, FALSE) =>
            /\ ~exec_trace[i].invoked
            /\ exec_trace[i].result.status = "PERMISSION_DENIED"
            /\ exec_trace[i].result.success = FALSE

\* the registry itself asked the engine and was told no
C8_Witness ==
    /\ pc = "executed"
    /\ exec_trace # <<>>
    /\ exec_trace[1].checks = <<FALSE>>
    /\ tools[exec_trace[1].name].requires_permission
    /\ exec_trace[1].result.status = "PERMISSION_DENIED"

\* C9: a handler that raises gives a ToolResult with success = false, status
\* FAILURE and a non-empty error string.
C9_RaiseGivesNonEmptyError ==
    \A i \in 1..Len(exec_trace) :
        (exec_trace[i].invoked /\ exec_trace[i].outcome.kind = "raise") =>
            /\ exec_trace[i].result.success = FALSE
            /\ exec_trace[i].result.status = "FAILURE"
            /\ exec_trace[i].result.error # NoText
            /\ exec_trace[i].result.error # <<>>

\* C10: after a cycle that executed calls, the path of every write-class call
\* with a non-empty path is in files_modified, and files_modified has no
\* path twice.
C10_WritesTracked ==
    /\ cycle.kind = "tools" =>
          \A i \in 1..Len(exec_trace) :
              (exec_trace[i].name \in WRITE_TOOLS /\ DictGet(exec_trace[i].args, "path", <<>>) # <<>>)
                  => Contains(result.files_modified, DictGet(exec_trace[i].args, "path", <<>>))
    /\ \A i, j \in 1..Len(result.files_modified) :
          i # j => result.files_modified[i] # result.files_modified[j]

\* the tool-role entries the session got in the last cycle
EntriesOfCycle == SubSeq(messages, cycle.entries + 1, Len(messages))

\* C11: every call a cycle executed gets exactly one tool-role entry with its
\* tool name and success flag, so a cycle adds as many entries as it executed calls.
C11_OneEntryPerCall ==
    cycle.kind = "tools" =>
        /\ Len(EntriesOfCycle) = Len(exec_trace)
        /\ \A i \in 1..Len(exec_trace) :
              /\ EntriesOfCycle[i].role = "tool"
              /\ EntriesOfCycle[i].tool_name = exec_trace[i].name
              /\ EntriesOfCycle[i].success = exec_trace[i].result.success

\* C12: every call of ToolRegistry.execute appends exactly one entry to the
\* execution log, whatever its outcome (NOT_FOUND, PERMISSION_DENIED and
\* VALIDATION_ERROR included).
C12_EveryExecuteLogged ==
    pc = "executed" => \A i \in 1..Len(exec_trace) : exec_trace[i].logged

\* C13: execute returns a canonical ToolResult whatever the handler returns:
\* a bare string gives a success result with that output, a legacy tuple a
\* result with its three fields, a ToolResult is returned with its fields kept.
C13_ReturnNormalised ==
    pc = "executed" =>
        \A i \in 1..Len(exec_trace) :
            LET e == exec_trace[i]
            IN  e.invoked =>
                  /\ e.outcome.kind = "str" => (e.result.success /\ e.result.output = e.outcome.msg)
                  /\ e.outcome.kind = "tuple" =>
                        /\ e.result.success
                        /\ e.result.output = e.outcome.msg
                        /\ e.result.error = NoText
                  /\ e.outcome.kind = "ok" => e.result = ToolResult_ok(e.outcome.msg)
                  /\ e.outcome.kind = "fail" =>
                        e.result = ToolResult_fail(e.outcome.msg, <<>>, "FAILURE")

\* the last operation on the engine was a check
Checked == pc = "engine" /\ exec_trace # <<>> /\ exec_trace[1].op = "check"
\* no rule of the effective set matches the pair of the last check
NoRuleMatches ==
    \E rules \in {get_effective_rules(_load_config)} :
        \A i \in 1..Len(rules) : ~matches(rules[i], exec_trace[1].action, exec_trace[1].target)

\* C14: check returns true whenever no rule of the effective set matches the
\* (tool, resource) pair.
C14_DefaultAllow == (Checked /\ NoRuleMatches) => exec_trace[1].returned = TRUE

\* a check ran on a pair that no rule of a non-empty effective set matches
C14_Witness ==
    /\ Checked
    /\ NoRuleMatches
    /\ get_effective_rules(_load_config) # <<>>
    /\ exec_trace[1].returned = TRUE

\* C15: with the effective rules [deny write "**/.env*" priority 10, allow
\* write "**/*.py" priority 0], check("write", ".env") returns false and
\* check("write", "app.py") returns true.
C15_DoubleStarMatchesBareName ==
    (Checked /\ get_effective_rules(_load_config) = UserRules /\ exec_trace[1].action = "write") =>
        /\ exec_trace[1].target = PathDotEnv => exec_trace[1].returned = FALSE
        /\ exec_trace[1].target = PathApp => exec_trace[1].returned = TRUE

\* the key of the pair of the last operation
LastKey == cache_key(exec_trace[1].action, exec_trace[1].target)
\* the first rule of the effective set that matches the last check's pair is
\* a confirm rule
DecidedByConfirm ==
    \E rules \in {get_effective_rules(_load_config)} :
        \E i \in 1..Len(rules) :
            /\ rules[i].action = "confirm"
            /\ matches(rules[i], exec_trace[1].action, exec_trace[1].target)
            /\ \A j \in 1..(i - 1) : ~matches(rules[j], exec_trace[1].action, exec_trace[1].target)
\* a check decided by a confirm rule returned the cached decision, or false
ConfirmAnswer ==
    (Checked /\ DecidedByConfirm) =>
        exec_trace[1].returned = IF CacheHas(confirmation_cache, LastKey)
                                 THEN CacheGet(confirmation_cache, LastKey) ELSE FALSE

\* C16: a check decided by a confirm rule returns the cached decision of the
\* pair, or false when none is cached; a cached decision is never changed and
\* is what a later ask_once for the pair returns.
C16_ConfirmUsesCache ==
    [][/\ ConfirmAnswer'
       /\ \A e \in confirmation_cache : e \in confirmation_cache'
       /\ \A e1, e2 \in confirmation_cache' : e1[1] = e2[1] => e1 = e2
       /\ (exec_trace'[1].op = "ask_once" /\ CacheHas(confirmation_cache, LastKey')) =>
             exec_trace'[1].returned = CacheGet(confirmation_cache, LastKey')
      ]_vars

\* a check decided by a confirm rule was answered yes from the cache
C16_Witness ==
    /\ Checked
    /\ DecidedByConfirm
    /\ CacheHas(confirmation_cache, LastKey)
    /\ exec_trace[1].returned = TRUE

\* the rules the configuration files hold are in the effective set after the step
UserRulesKept ==
    \E after \in {get_effective_rules(_load_config)'} :
        \A i \in 1..Len(_load_config.rules) : Contains(after, _load_config.rules[i])

\* C17: set_preset never removes or changes a stored rule: every rule of the
\* configuration files stays in the effective set over any operation, and a
\* rule that add_rule added is effective from then on.
C17_PresetKeepsUserRules ==
    [][/\ UserRulesKept
       /\ exec_trace'[1].op = "add_rule" =>
             Contains(get_effective_rules(_load_config)', AddedRule)
      ]_vars

\* a preset was activated on a configuration that holds an added rule, and
\* the rule is effective next to the preset's rules
C17_Witness ==
    /\ pc = "engine"
    /\ exec_trace # <<>>
    /\ exec_trace[1].op = "set_preset"
    /\ exec_trace[1].returned = None
    /\ local_file.active_preset = "readonly"
    /\ Contains(local_file.rules, AddedRule)
    /\ Contains(get_effective_rules(_load_config), AddedRule)
    /\ Contains(get_effective_rules(_load_config), PRESETS["readonly"][1])

\* C18: the effective rule set of every check contains the built-in default
\* rules, whatever the configuration files contain.
C18_DefaultsAlwaysEffective ==
    Checked =>
        \E rules \in {get_effective_rules(_load_config)} :
            \A i \in 1..Len(DEFAULT_CONFIG.rules) : Contains(rules, DEFAULT_CONFIG.rules[i])

\* the session before the prune just made, its budget, and the role classes
\* prune_context works on
PrunedFrom == exec_trace[1].before
PrunedTo == exec_trace[1].max_tokens
ToolClass == {"tool"}
ConversationClass == {"user", "assistant"}
Timestamps(msgs) == {msgs[i].timestamp : i \in 1..Len(msgs)}
\* what the truncation of _truncate_long_messages makes of a content
Truncated(content) ==
    (IF content \div 2 > TRUNCATE_MIN THEN content \div 2 ELSE TRUNCATE_MIN) + MARKER_LEN
\* the session held at least the floor of each class and was over budget
OverBudgetAtFloors ==
    /\ pc = "pruned"
    /\ estimate_tokens(PrunedFrom) > PrunedTo
    /\ Len(OfRoles(PrunedFrom, ToolClass)) >= TOOL_FLOOR
    /\ Len(OfRoles(PrunedFrom, ConversationClass)) >= CONVERSATION_FLOOR

\* C19: a prune of a session that is over budget and holds at least 2 tool
\* and 5 user/assistant entries leaves at least 2 tool and 5 user/assistant
\* entries; a class at its floor loses no entry; and past the removals every
\* entry left is an entry of before, unchanged or with its content truncated
C19_FloorsKept ==
    OverBudgetAtFloors =>
        /\ Len(OfRoles(messages, ToolClass)) >= TOOL_FLOOR
        /\ Len(OfRoles(messages, ConversationClass)) >= CONVERSATION_FLOOR
        /\ \A class \in {ToolClass, ConversationClass} :
              \A floor \in {IF class = ToolClass THEN TOOL_FLOOR ELSE CONVERSATION_FLOOR} :
                 Len(OfRoles(PrunedFrom, class)) = floor =>
                    Timestamps(OfRoles(messages, class)) = Timestamps(OfRoles(PrunedFrom, class))
        /\ Timestamps(OfRoles(messages, {"system"})) = Timestamps(OfRoles(PrunedFrom, {"system"}))
        /\ \A i \in 1..Len(messages) : \E j \in 1..Len(PrunedFrom) :
              /\ PrunedFrom[j].timestamp = messages[i].timestamp
              /\ PrunedFrom[j].role = messages[i].role
              /\ \/ messages[i].content = PrunedFrom[j].content
                 \/ messages[i].content = Truncated(PrunedFrom[j].content)

\* both classes were above their floor, the prune took both down to it and
\* then truncated a content, and the session is still over budget
C19_Witness ==
    /\ OverBudgetAtFloors
    /\ Len(OfRoles(PrunedFrom, ToolClass)) > TOOL_FLOOR
    /\ Len(OfRoles(PrunedFrom, ConversationClass)) > CONVERSATION_FLOOR
    /\ Len(OfRoles(messages, ToolClass)) = TOOL_FLOOR
    /\ Len(OfRoles(messages, ConversationClass)) = CONVERSATION_FLOOR
    /\ \E i \in 1..Len(messages) : \E j \in 1..Len(PrunedFrom) :
          /\ PrunedFrom[j].timestamp = messages[i].timestamp
          /\ messages[i].content # PrunedFrom[j].content
    /\ estimate_tokens(messages) > PrunedTo

\* the entries of msgs that a prune took out of the session it left as kept
RemovedFrom(msgs, kept) == SelectSeq(msgs, LAMBDA m : m.timestamp \notin Timestamps(kept))

\* C20: the entries left by a prune stand in the order they had before it
\* (timestamps still ascending, each the entry of before in its role), and
\* every entry removed from a role class is older than every entry of that
\* class that is left
C20_OrderKept ==
    pc = "pruned" =>
        /\ \A i, j \in 1..Len(messages) : i < j =>
              \E k, l \in 1..Len(PrunedFrom) :
                 /\ k < l
                 /\ PrunedFrom[k].timestamp = messages[i].timestamp
                 /\ PrunedFrom[k].role = messages[i].role
                 /\ PrunedFrom[l].timestamp = messages[j].timestamp
                 /\ PrunedFrom[l].role = messages[j].role
        /\ \A class \in {ToolClass, ConversationClass} :
              \A removed \in Timestamps(RemovedFrom(OfRoles(PrunedFrom, class), messages)) :
                 \A kept \in Timestamps(OfRoles(messages, class)) : removed < kept

\* a prune removed entries of both classes from between entries it left
C20_Witness ==
    /\ pc = "pruned"
    /\ \A class \in {ToolClass, ConversationClass} :
          /\ RemovedFrom(OfRoles(PrunedFrom, class), messages) # <<>>
          /\ OfRoles(messages, class) # <<>>
    /\ \E i \in 1..Len(messages) : \E removed \in Timestamps(RemovedFrom(PrunedFrom, messages)) :
          messages[i].timestamp < removed

\* the entries of before that a prune left, with the content they had before
\* it: the session as the removal loops left it
AfterRemovals == SelectSeq(PrunedFrom, LAMBDA m : m.timestamp \in Timestamps(messages))
\* the session when the last entry of class was removed: what the removals
\* left, that entry, and the entries of the classes removed after it
WhenLastRemoved(class, later) ==
    SelectSeq(PrunedFrom, LAMBDA m :
        \/ m.timestamp \in Timestamps(messages)
        \/ m.role \in later
        \/ /\ m.role \in class
           /\ \A r \in Timestamps(RemovedFrom(OfRoles(PrunedFrom, class), messages)) :
                 r <= m.timestamp)
\* the prune changed the content of an entry it left
SomeTruncated ==
    \E i \in 1..Len(messages) : \E j \in 1..Len(PrunedFrom) :
       /\ PrunedFrom[j].timestamp = messages[i].timestamp
       /\ messages[i].content # PrunedFrom[j].content

\* C24: a prune of a session within budget changes nothing; a tool entry
\* is removed only while the session is over budget; a user/assistant entry
\* is removed only while the session is over budget with at most 2 tool
\* entries left; content is truncated only when the session is over budget
\* after both removal loops, each class at or below its floor
C24_PhasesInOrder ==
    pc = "pruned" =>
        /\ estimate_tokens(PrunedFrom) <= PrunedTo => messages = PrunedFrom
        /\ RemovedFrom(OfRoles(PrunedFrom, ToolClass), messages) # <<>> =>
              estimate_tokens(WhenLastRemoved(ToolClass, ConversationClass)) > PrunedTo
        /\ RemovedFrom(OfRoles(PrunedFrom, ConversationClass), messages) # <<>> =>
              /\ estimate_tokens(WhenLastRemoved(ConversationClass, {})) > PrunedTo
              /\ Len(OfRoles(messages, ToolClass)) <= TOOL_FLOOR
        /\ SomeTruncated =>
              /\ estimate_tokens(AfterRemovals) > PrunedTo
              /\ Len(OfRoles(messages, ToolClass)) <= TOOL_FLOOR
              /\ Len(OfRoles(messages, ConversationClass)) <= CONVERSATION_FLOOR

\* a prune that removed entries in both removal loops and then truncated
C24_Witness ==
    /\ pc = "pruned"
    /\ RemovedFrom(OfRoles(PrunedFrom, ToolClass), messages) # <<>>
    /\ RemovedFrom(OfRoles(PrunedFrom, ConversationClass), messages) # <<>>
    /\ SomeTruncated

\* C25: a prune returns with the estimate above its budget only when no
\* user, assistant or tool entry longer than the 200-character floor plus the
\* marker is left: truncation goes on, pass after pass, until the session is
\* within budget or nothing can be shortened
C25_TruncatesUntilWithinBudget ==
    (pc = "pruned" /\ estimate_tokens(messages) > PrunedTo) =>
        \A i \in 1..Len(messages) :
           messages[i].role \in ToolClass \cup ConversationClass =>
              messages[i].content <= TRUNCATE_MIN + MARKER_LEN

\* C27: a prune never raises the estimate, and no entry it leaves has a
\* longer content than it had before
C27_PruneNeverGrows ==
    pc = "pruned" =>
        /\ estimate_tokens(messages) <= estimate_tokens(PrunedFrom)
        /\ \A i \in 1..Len(messages) : \A j \in 1..Len(PrunedFrom) :
              PrunedFrom[j].timestamp = messages[i].timestamp =>
                 messages[i].content <= PrunedFrom[j].content

\* the rules in the order they are loaded: user-global file, user-local
\* file, then the rules of the active preset
LoadOrder ==
    global_file.rules \o local_file.rules
        \o (IF _load_config.active_preset \in DOMAIN PRESETS
            THEN PRESETS[_load_config.active_preset] ELSE <<>>)
\* the rules of LoadOrder that match the pair of the last check
Matching == {i \in 1..Len(LoadOrder) :
                matches(LoadOrder[i], exec_trace[1].action, exec_trace[1].target)}
\* the matching rule that decides: of highest priority, and the earliest
\* loaded of those
Decider ==
    CHOOSE i \in Matching :
        \A j \in Matching :
           \/ LoadOrder[j].priority < LoadOrder[i].priority
           \/ (LoadOrder[j].priority = LoadOrder[i].priority /\ i <= j)

\* C23: the outcome of a check that some rule matches is the outcome of the
\* matching rule of highest priority, and among matching rules of that
\* priority of the one loaded earliest (global file, local file, preset)
C23_FirstMatchDecides ==
    (Checked /\ Matching # {}) =>
        exec_trace[1].returned =
            IF LoadOrder[Decider].action = "allow" THEN TRUE
            ELSE IF LoadOrder[Decider].action = "deny" THEN FALSE
            ELSE IF CacheHas(confirmation_cache, LastKey)
                 THEN CacheGet(confirmation_cache, LastKey) ELSE FALSE

\* a check was decided by a stored rule against a matching rule of the
\* active preset that has the same priority and another action
C23_Witness ==
    /\ Checked
    /\ Matching # {}
    /\ \E j \in Matching :
          /\ LoadOrder[j].priority = LoadOrder[Decider].priority
          /\ LoadOrder[j].action # LoadOrder[Decider].action
          /\ j > Len(global_file.rules \o local_file.rules)

\* the rules of the preset of name p, none for None
PresetRules(p) == IF p \in DOMAIN PRESETS THEN PRESETS[p] ELSE <<>>

\* C29: once set_preset(p) has returned, the effective rule set is the
\* stored rules and the rules of preset p, of no other preset (of none
\* after set_preset(None)), and no other operation changes the preset in
\* effect
C29_PresetIsTheOneSet ==
    [][/\ (exec_trace'[1].op = "set_preset" /\ exec_trace'[1].returned = None) =>
             \A other \in DOMAIN PRESETS \ {exec_trace'[1].action} :
                \A i \in 1..Len(PRESETS[other]) :
                   \/ Contains(get_effective_rules(_load_config)', PRESETS[other][i]) =>
                         \/ Contains(_load_config'.rules, PRESETS[other][i])
                         \/ Contains(PresetRules(exec_trace'[1].action), PRESETS[other][i])
       /\ (exec_trace'[1].op = "set_preset" /\ exec_trace'[1].returned = None) =>
             \A i \in 1..Len(PresetRules(exec_trace'[1].action)) :
                Contains(get_effective_rules(_load_config)',
                         PresetRules(exec_trace'[1].action)[i])
       /\ exec_trace'[1].op \in {"check", "ask_once", "add_rule"} =>
             _load_config'.active_preset = _load_config.active_preset
      ]_vars

\* the declared parameters of the tool of an execution that the call leaves
\* without a value (required, no default) or gives a value int() or float()
\* rejects
BadParams(e) ==
    {k \in 1..Len(Parameters(e.name)) :
        \E p \in {Parameters(e.name)[k]} :
           \/ p.required /\ ~p.has_default /\ ~DictHas(e.args, p.name)
           \/ /\ DictHas(e.args, p.name)
              /\ p.type_hint \in {"int", "float"}
              /\ \A n \in NumericUnits : DictGet(e.args, p.name, <<>>) # <<n>>}

C30_HandlerGetsCoercedValues ==
    pc = "executed" =>
        \A i \in 1..Len(exec_trace) :
           (exec_trace[i].invoked /\ exec_trace[i].result.status # "VALIDATION_ERROR") =>
              \A k \in 1..Len(Parameters(exec_trace[i].name)) :
                 \A a \in 1..Len(call_args(exec_trace[i].args)) :
                    call_args(exec_trace[i].args)[a][1] = Parameters(exec_trace[i].name)[k].name =>
                       call_args(exec_trace[i].args)[a][2].type
                           = Parameters(exec_trace[i].name)[k].type_hint

\* C28: whenever run_quest has returned, by completion, by exhausting its
\* turns or by a caught error, the session holds no active quest: quest_id
\* and quest_task are cleared
C28_ReturnEndsQuest ==
    pc = "returned" => (session.quest_id = None /\ session.quest_task = None)

\* C21: after a load that did not succeed or a save that failed, nothing was
\* raised to the caller and the session is a fresh empty one: no entries, no
\* quest id, no quest task
C21_FailureGivesFreshSession ==
    (pc \in {"loaded", "saved"} /\ ~exec_trace[1].returned) =>
        /\ exec_trace[1].raised = None
        /\ messages = <<>>
        /\ session.quest_id = None
        /\ session.quest_task = None

\* the last handler call started a process that ran past the timeout in force
RanPastTimeout ==
    /\ pc = "handled"
    /\ exec_trace[1].cmd \notin {<<>>, <<"nose">>}
    /\ exec_trace[1].work_dir_exists
    /\ exec_trace[1].behaviour.found
    /\ exec_trace[1].behaviour.duration > exec_trace[1].timeout.value

\* C22: when the command of localexec, shell or run_tests runs past its
\* timeout, the handler returns a ToolResult of status TIMEOUT with
\* success = false, nothing is raised, and the process has been killed
C22_TimeoutKillsAndReports ==
    RanPastTimeout =>
        /\ exec_trace[1].raised = None
        /\ exec_trace[1].result.status = "TIMEOUT"
        /\ exec_trace[1].result.success = FALSE
        /\ exec_trace[1].process = "killed"

====
